---- MODULE Spec2Model ----
(***************************************************************************)
(* The persistence layer (tables customers, items, reviews and the mapped  *)
(* classes Customer, Item, Review with their relationships) and the        *)
(* serialization layer (CustomerSchema, ItemSchema, ReviewSchema) of       *)
(* server/models.py.                                                       *)
(*                                                                         *)
(* The store holds the committed rows.  A unit of work (one session of     *)
(* db = SQLAlchemy(...), scoped to one request) starts with the mapped     *)
(* objects as loaded from the store, changes them in memory through the    *)
(* relationships the classes declare, and ends with Commit, which flushes  *)
(* the changes (cascade delete, delete-orphan, foreign-key sync, the       *)
(* declared FOREIGN KEY constraints) and starts the next unit of work      *)
(* from the store.                                                         *)
(***************************************************************************)
EXTENDS Integers, Sequences, FiniteSets, TLC

\* ------------------------------------------------------------------ bounds
MaxCustomers == 2      \* customer ids
MaxItems == 1          \* item ids
MaxReviews == 2        \* review ids, when every request is one operation
MaxOps == 2            \* in-memory operations of a longer unit of work
MaxUnitReviews == 1    \* review ids, when units of work are longer
MaxDepth == 4          \* nesting the serializer may reach before it gives up

CustomerNames == {"Ana"}
ItemNames == {"Mug"}
Prices == {9}
Comments == {"ok"}

\* ------------------------------------------------- values of the data model
\* NULL of a nullable foreign key column, None of a scalar relationship
None == 0
\* state.parents of a Review for one delete-orphan relationship: no entry yet
\* (the object was loaded or constructed without the relationship), or False
\* (the Review was removed from the collection of its last parent)
NO_ENTRY == -1
NOT_PARENT == -2

CustomerIds == 1..MaxCustomers
ItemIds == 1..MaxItems
ReviewIds == 1..MaxReviews

VARIABLES
    customers,   \* table customers: id -> [name]
    items,       \* table items:     id -> [name, price]
    reviews,     \* table reviews:   id -> [comment, customer_id, item_id]
    Customer,    \* session objects: id -> [name, reviews (list of Review)]
    Item,        \* session objects: id -> [name, price, reviews]
    Review,      \* session objects: id -> [comment, customer, item,
                 \*                         hp_customer, hp_item]
    deleted,     \* objects marked by session.delete: [customers, items, reviews]
    ops,         \* in-memory operations since the unit of work began
    budget,      \* what the caller does: [ops: operations a unit of work may
                 \* hold before it commits, reviews: review ids it uses]
    reappended,  \* history: some Review was appended to a list already holding it
    out          \* what the last operation returned to its caller

vars == <<customers, items, reviews, Customer, Item, Review, deleted,
          ops, budget, reappended, out>>

store == <<customers, items, reviews>>

\* ------------------------------------------------------------------ helpers
RECURSIVE SortedSeq(_)
SortedSeq(S) ==
    IF S = {} THEN <<>>
    ELSE LET m == CHOOSE x \in S : \A y \in S : x <= y
         IN  <<m>> \o SortedSeq(S \ {m})

Range(s) == {s[k] : k \in 1..Len(s)}

\* list.remove(x): the first occurrence goes, the rest stays in order
ListRemove(s, x) ==
    IF x \notin Range(s) THEN s
    ELSE LET p == CHOOSE k \in 1..Len(s) : s[k] = x /\ \A j \in 1..(k-1) : s[j] # x
         IN  SubSeq(s, 1, p-1) \o SubSeq(s, p+1, Len(s))

\* db.Column(db.Integer, primary_key=True): the store assigns the key, one
\* above the largest key the table (and the session's pending objects) holds
NextId(tbl, obj) ==
    LET used == DOMAIN tbl \cup DOMAIN obj
    IN  IF used = {} THEN 1
        ELSE (CHOOSE x \in used : \A y \in used : y <= x) + 1

\* --------------------------------------------------- loading from the store
\* Customer.reviews / Item.reviews: the Reviews whose foreign key is the parent
LoadCustomers(cs, rs) ==
    [c \in DOMAIN cs |->
        [name |-> cs[c].name,
         reviews |-> SortedSeq({r \in DOMAIN rs : rs[r].customer_id = c})]]

LoadItems(is, rs) ==
    [i \in DOMAIN is |->
        [name |-> is[i].name, price |-> is[i].price,
         reviews |-> SortedSeq({r \in DOMAIN rs : rs[r].item_id = i})]]

\* Review.customer / Review.item: the parent the foreign key references
LoadReviews(rs) ==
    [r \in DOMAIN rs |->
        [comment |-> rs[r].comment,
         customer |-> rs[r].customer_id, item |-> rs[r].item_id,
         hp_customer |-> NO_ENTRY, hp_item |-> NO_ENTRY]]

NoneDeleted == [customers |-> {}, items |-> {}, reviews |-> {}]

Idle == [kind |-> "none"]

\* a new session: every object as the store has it, nothing pending
NewSession(cs, is, rs) ==
    /\ Customer' = LoadCustomers(cs, rs)
    /\ Item' = LoadItems(is, rs)
    /\ Review' = LoadReviews(rs)
    /\ deleted' = NoneDeleted
    /\ ops' = 0
    /\ reappended' = FALSE

Clean == ops = 0

\* ------------------------------------------- relationship attribute events
\* sethasparent(state, parent_state, value) for one relationship of a Review
SetHasParent(cur, parent, value) ==
    IF value THEN parent
    ELSE IF cur \notin {NO_ENTRY, NOT_PARENT} /\ cur # parent THEN cur
    ELSE NOT_PARENT

\* the backref that forgets the old parent: the Review joins the new list and
\* stays in the old one
CustomerAfterSet_NoRemove(r, c) ==
    LET old == Review[r].customer IN
    IF old = c THEN Customer
    ELSE [x \in DOMAIN Customer |->
            IF x = c THEN [Customer[x] EXCEPT !.reviews = Append(@, r)]
            ELSE Customer[x]]

\* Review.customer = c, with back_populates='reviews': the Review leaves the
\* list of its old Customer and joins the list of the new one
CustomerAfterSet(r, c) ==
    LET old == Review[r].customer IN
    IF old = c THEN Customer
    ELSE [x \in DOMAIN Customer |->
            IF x = old THEN [Customer[x] EXCEPT !.reviews = ListRemove(@, r)]
            ELSE IF x = c THEN [Customer[x] EXCEPT !.reviews = Append(@, r)]
            ELSE Customer[x]]

HpCustomerAfterSet(r, c) ==
    LET old == Review[r].customer
        h0 == Review[r].hp_customer
        h1 == IF old # None THEN SetHasParent(h0, old, FALSE) ELSE h0
    IN  IF old = c THEN h0
        ELSE IF c # None THEN SetHasParent(h1, c, TRUE) ELSE h1

ItemAfterSet(r, i) ==
    LET old == Review[r].item IN
    IF old = i THEN Item
    ELSE [x \in DOMAIN Item |->
            IF x = old THEN [Item[x] EXCEPT !.reviews = ListRemove(@, r)]
            ELSE IF x = i THEN [Item[x] EXCEPT !.reviews = Append(@, r)]
            ELSE Item[x]]

HpItemAfterSet(r, i) ==
    LET old == Review[r].item
        h0 == Review[r].hp_item
        h1 == IF old # None THEN SetHasParent(h0, old, FALSE) ELSE h0
    IN  IF old = i THEN h0
        ELSE IF i # None THEN SetHasParent(h1, i, TRUE) ELSE h1

\* the store is empty and the session holds nothing
Empty ==
    /\ customers = <<>>
    /\ items = <<>>
    /\ reviews = <<>>
    /\ Customer = <<>>
    /\ Item = <<>>
    /\ Review = <<>>
    /\ deleted = NoneDeleted
    /\ ops = 0
    /\ reappended = FALSE
    /\ out = Idle

\* every request is one operation on the session, then commit
Init ==
    /\ Empty
    /\ budget = [ops |-> 1, reviews |-> MaxReviews]

\* units of work of up to MaxOps operations
InitUnit ==
    /\ Empty
    /\ budget = [ops |-> MaxOps, reviews |-> MaxUnitReviews]

\* ------------------------------------------------------ in-memory operations
Step ==
    /\ ops < budget.ops
    /\ ops' = ops + 1
    /\ out' = Idle
    /\ UNCHANGED <<store, budget>>

\* c = Customer(name=n); db.session.add(c)
AddCustomer(n) ==
    /\ Step
    /\ NextId(customers, Customer) <= MaxCustomers
    /\ Customer' = (NextId(customers, Customer) :> [name |-> n, reviews |-> <<>>]) @@ Customer
    /\ UNCHANGED <<Item, Review, deleted, reappended>>

\* i = Item(name=n, price=p); db.session.add(i)
AddItem(n, p) ==
    /\ Step
    /\ NextId(items, Item) <= MaxItems
    /\ Item' = (NextId(items, Item) :> [name |-> n, price |-> p, reviews |-> <<>>]) @@ Item
    /\ UNCHANGED <<Customer, Review, deleted, reappended>>

\* r = Review(comment=t, customer=c, item=i); db.session.add(r)
\* (c, i: an object of the session, or None)
AddReview(t, c, i) ==
    /\ Step
    /\ NextId(reviews, Review) <= budget.reviews
    /\ c \in DOMAIN Customer \cup {None}
    /\ i \in DOMAIN Item \cup {None}
    /\ LET r == NextId(reviews, Review) IN
        /\ Review' = (r :> [comment |-> t, customer |-> c, item |-> i,
                            hp_customer |-> IF c = None THEN NO_ENTRY ELSE c,
                            hp_item |-> IF i = None THEN NO_ENTRY ELSE i]) @@ Review
        /\ Customer' = [x \in DOMAIN Customer |->
                          IF x = c THEN [Customer[x] EXCEPT !.reviews = Append(@, r)]
                          ELSE Customer[x]]
        /\ Item' = [x \in DOMAIN Item |->
                          IF x = i THEN [Item[x] EXCEPT !.reviews = Append(@, r)]
                          ELSE Item[x]]
    /\ UNCHANGED <<deleted, reappended>>

\* r.customer = c  (c None: r.customer = None), r a persistent Review
SetCustomer(r, c) ==
    /\ Step
    /\ r \in DOMAIN reviews
    /\ c \in DOMAIN Customer \cup {None}
    /\ Customer' = CustomerAfterSet(r, c)
    /\ Review' = [Review EXCEPT ![r].customer = c,
                                ![r].hp_customer = HpCustomerAfterSet(r, c)]
    /\ UNCHANGED <<Item, deleted, reappended>>

\* r.item = i  (i None: r.item = None), r a persistent Review
SetItem(r, i) ==
    /\ Step
    /\ r \in DOMAIN reviews
    /\ i \in DOMAIN Item \cup {None}
    /\ Item' = ItemAfterSet(r, i)
    /\ Review' = [Review EXCEPT ![r].item = i,
                                ![r].hp_item = HpItemAfterSet(r, i)]
    /\ UNCHANGED <<Customer, deleted, reappended>>

\* c.reviews.append(r), r a persistent Review: the list takes r (again, when
\* it holds r already) and the backref sets r.customer = c
AppendCustomerReview(c, r) ==
    /\ Step
    /\ r \in DOMAIN reviews
    /\ c \in DOMAIN Customer
    /\ LET old == Review[r].customer
           h1 == IF old \notin {None, c}
                 THEN SetHasParent(Review[r].hp_customer, old, FALSE)
                 ELSE Review[r].hp_customer
       IN
        /\ Customer' = [x \in DOMAIN Customer |->
                          IF x = c THEN [Customer[x] EXCEPT !.reviews = Append(@, r)]
                          ELSE IF x = old THEN [Customer[x] EXCEPT !.reviews = ListRemove(@, r)]
                          ELSE Customer[x]]
        /\ Review' = [Review EXCEPT ![r].customer = c,
                                    ![r].hp_customer = SetHasParent(h1, c, TRUE)]
    /\ reappended' = (reappended \/ r \in Range(Customer[c].reviews))
    /\ UNCHANGED <<Item, deleted>>

\* c.reviews.remove(r): one occurrence leaves the list and the backref sets
\* r.customer = None
RemoveCustomerReview(c, r) ==
    /\ Step
    /\ c \in DOMAIN Customer
    /\ r \in Range(Customer[c].reviews)
    /\ r \in DOMAIN reviews
    /\ Customer' = [Customer EXCEPT ![c].reviews = ListRemove(@, r)]
    /\ Review' = [Review EXCEPT
                    ![r].customer = IF @ = c THEN None ELSE @,
                    ![r].hp_customer = SetHasParent(@, c, FALSE)]
    /\ UNCHANGED <<Item, deleted, reappended>>

\* i.reviews.append(r), r a persistent Review
AppendItemReview(i, r) ==
    /\ Step
    /\ r \in DOMAIN reviews
    /\ i \in DOMAIN Item
    /\ LET old == Review[r].item
           h1 == IF old \notin {None, i}
                 THEN SetHasParent(Review[r].hp_item, old, FALSE)
                 ELSE Review[r].hp_item
       IN
        /\ Item' = [x \in DOMAIN Item |->
                          IF x = i THEN [Item[x] EXCEPT !.reviews = Append(@, r)]
                          ELSE IF x = old THEN [Item[x] EXCEPT !.reviews = ListRemove(@, r)]
                          ELSE Item[x]]
        /\ Review' = [Review EXCEPT ![r].item = i,
                                    ![r].hp_item = SetHasParent(h1, i, TRUE)]
    /\ reappended' = (reappended \/ r \in Range(Item[i].reviews))
    /\ UNCHANGED <<Customer, deleted>>

\* i.reviews.remove(r)
RemoveItemReview(i, r) ==
    /\ Step
    /\ i \in DOMAIN Item
    /\ r \in Range(Item[i].reviews)
    /\ r \in DOMAIN reviews
    /\ Item' = [Item EXCEPT ![i].reviews = ListRemove(@, r)]
    /\ Review' = [Review EXCEPT
                    ![r].item = IF @ = i THEN None ELSE @,
                    ![r].hp_item = SetHasParent(@, i, FALSE)]
    /\ UNCHANGED <<Customer, deleted, reappended>>

\* cascade='all, ...' holds 'delete': session.delete(parent) marks every
\* Review of parent.reviews as well
CascadeDelete(parent_reviews) == Range(parent_reviews)

\* a relationship without the 'delete' cascade: only the parent is marked
DeleteCustomer_NoCascade(c) ==
    /\ Step
    /\ c \in DOMAIN customers
    /\ c \notin deleted.customers
    /\ deleted' = [deleted EXCEPT !.customers = @ \cup {c}]
    /\ UNCHANGED <<Customer, Item, Review, reappended>>

\* db.session.delete(c), c a persistent Customer
DeleteCustomer(c) ==
    /\ Step
    /\ c \in DOMAIN customers
    /\ c \notin deleted.customers
    /\ deleted' = [deleted EXCEPT
                     !.customers = @ \cup {c},
                     !.reviews = @ \cup CascadeDelete(Customer[c].reviews)]
    /\ UNCHANGED <<Customer, Item, Review, reappended>>

DeleteItem_NoCascade(i) ==
    /\ Step
    /\ i \in DOMAIN items
    /\ i \notin deleted.items
    /\ deleted' = [deleted EXCEPT !.items = @ \cup {i}]
    /\ UNCHANGED <<Customer, Item, Review, reappended>>

\* db.session.delete(i), i a persistent Item
DeleteItem(i) ==
    /\ Step
    /\ i \in DOMAIN items
    /\ i \notin deleted.items
    /\ deleted' = [deleted EXCEPT
                     !.items = @ \cup {i},
                     !.reviews = @ \cup CascadeDelete(Item[i].reviews)]
    /\ UNCHANGED <<Customer, Item, Review, reappended>>

\* db.session.delete(r), r a persistent Review
DeleteReview(r) ==
    /\ Step
    /\ r \in DOMAIN reviews
    /\ r \notin deleted.reviews
    /\ deleted' = [deleted EXCEPT !.reviews = @ \cup {r}]
    /\ UNCHANGED <<Customer, Item, Review, reappended>>

\* ------------------------------------------------------------------- flush
\* legacy_is_orphan: an orphan only once every parent has let go of it
IsOrphan_Legacy(r) ==
    /\ Review[r].hp_customer = NOT_PARENT
    /\ Review[r].hp_item = NOT_PARENT

\* cascade='... delete-orphan' on Customer.reviews and on Item.reviews: a
\* persistent Review that either relationship has recorded as removed from its
\* parent is an orphan, and the flush deletes it
IsOrphan(r) ==
    \/ Review[r].hp_customer = NOT_PARENT
    \/ Review[r].hp_item = NOT_PARENT

Orphans == {r \in DOMAIN reviews : IsOrphan(r)}

FlushCustomers ==
    [c \in (DOMAIN Customer) \ deleted.customers |-> [name |-> Customer[c].name]]

FlushItems ==
    [i \in (DOMAIN Item) \ deleted.items |->
        [name |-> Item[i].name, price |-> Item[i].price]]

\* the rows of the Reviews that stay: the foreign keys follow the relationships
FlushReviews ==
    [r \in (DOMAIN Review) \ (deleted.reviews \cup Orphans) |->
        [comment |-> Review[r].comment,
         customer_id |-> Review[r].customer,
         item_id |-> Review[r].item]]

\* columns declared without db.ForeignKey: the store checks nothing
ForeignKeysUnchecked(cs, is, rs) == TRUE

\* db.ForeignKey('customers.id'), db.ForeignKey('items.id'), nullable=True
ForeignKeysHold(cs, is, rs) ==
    \A r \in DOMAIN rs :
        /\ rs[r].customer_id \in DOMAIN cs \cup {None}
        /\ rs[r].item_id \in DOMAIN is \cup {None}

\* the rows the flush deletes: the marked objects that have a row, and the
\* orphans
FlushDeleted ==
    [customers |-> deleted.customers \cap DOMAIN customers,
     items |-> deleted.items \cap DOMAIN items,
     reviews |-> [r \in (deleted.reviews \cup Orphans) \cap DOMAIN reviews |-> reviews[r]]]

\* what commit reports: the DELETEs of the flush (and which of the deleted
\* Reviews went as orphans), or the error of the store
Committed(d, orphans) == [kind |-> "commit", deleted |-> d, orphans |-> orphans]

IntegrityError == [kind |-> "IntegrityError"]

\* db.session.commit(): the flush, then the next unit of work; a flush the
\* store rejects raises IntegrityError and the transaction is rolled back
Commit ==
    /\ ops > 0
    /\ IF ForeignKeysHold(FlushCustomers, FlushItems, FlushReviews)
       THEN /\ customers' = FlushCustomers
            /\ items' = FlushItems
            /\ reviews' = FlushReviews
            /\ out' = Committed(FlushDeleted, Orphans \ deleted.reviews)
       ELSE /\ UNCHANGED store
            /\ out' = IntegrityError
    /\ NewSession(customers', items', reviews')
    /\ UNCHANGED budget

\* db.session.add(Review(comment=t, customer_id=cid, item_id=iid));
\* db.session.commit()  -- the foreign keys given as column values
PostReview(t, cid, iid) ==
    /\ Clean
    /\ NextId(reviews, Review) <= budget.reviews
    /\ LET r == NextId(reviews, Review)
           rs == (r :> [comment |-> t, customer_id |-> cid, item_id |-> iid]) @@ reviews
       IN  IF ForeignKeysHold(customers, items, rs)
           THEN /\ reviews' = rs
                            /\ out' = Committed([customers |-> {}, items |-> {}, reviews |-> <<>>], {})
           ELSE /\ UNCHANGED reviews
                /\ out' = IntegrityError
    /\ UNCHANGED <<customers, items>>
    /\ NewSession(customers', items', reviews')
    /\ UNCHANGED budget

\* --------------------------------------------------------- derived view
\* a proxy that keeps each Item once and drops None
CustomerItems_Distinct(c) ==
    SortedSeq({Review[r].item : r \in Range(Customer[c].reviews)} \ {None})

\* items = association_proxy('reviews', 'item'): for each Review of
\* c.reviews, in order, that Review's item
CustomerItems(c) ==
    [k \in 1..Len(Customer[c].reviews) |-> Review[Customer[c].reviews[k]].item]

\* c.items, read from a session that holds no unflushed change
ReadItems(c) ==
    /\ Clean
    /\ c \in DOMAIN customers
    /\ out' = [kind |-> "items", id |-> c, value |-> CustomerItems(c)]
    /\ UNCHANGED <<store, Customer, Item, Review, deleted, ops, budget, reappended>>

\* ------------------------------------------------------------ serialization
Plain(type) == [type |-> type, nested |-> "", exclude |-> {}, many |-> FALSE]

\* fields.Nested(lambda: schema(exclude=exclude), many=many)
Nested(schema, exclude, many) ==
    [type |-> "Nested", nested |-> schema, exclude |-> exclude, many |-> many]

\* nested reviews that exclude only 'customer'
CustomerSchema_KeepItem ==
    [id |-> Plain("Integer"),
     name |-> Plain("String"),
     reviews |-> Nested("ReviewSchema", {"customer"}, TRUE)]

CustomerSchema ==
    [id |-> Plain("Integer"),
     name |-> Plain("String"),
     reviews |-> Nested("ReviewSchema", {"customer", "item"}, TRUE)]

\* nested reviews that exclude only 'item'
ItemSchema_KeepCustomer ==
    [id |-> Plain("Integer"),
     name |-> Plain("String"),
     price |-> Plain("Float"),
     reviews |-> Nested("ReviewSchema", {"item"}, TRUE)]

ItemSchema ==
    [id |-> Plain("Integer"),
     name |-> Plain("String"),
     price |-> Plain("Float"),
     reviews |-> Nested("ReviewSchema", {"item", "customer"}, TRUE)]

\* a nested customer that keeps its 'reviews'
ReviewSchema_CustomerWithReviews ==
    [id |-> Plain("Integer"),
     comment |-> Plain("String"),
     customer |-> Nested("CustomerSchema", {}, FALSE),
     item |-> Nested("ItemSchema", {"reviews"}, FALSE)]

\* a nested item that keeps its 'reviews'
ReviewSchema_ItemWithReviews ==
    [id |-> Plain("Integer"),
     comment |-> Plain("String"),
     customer |-> Nested("CustomerSchema", {"reviews"}, FALSE),
     item |-> Nested("ItemSchema", {}, FALSE)]

ReviewSchema ==
    [id |-> Plain("Integer"),
     comment |-> Plain("String"),
     customer |-> Nested("CustomerSchema", {"reviews"}, FALSE),
     item |-> Nested("ItemSchema", {"reviews"}, FALSE)]

Fields(schema) ==
    CASE schema = "CustomerSchema" -> CustomerSchema
      [] schema = "ItemSchema" -> ItemSchema
      [] schema = "ReviewSchema" -> ReviewSchema

\* the attribute a field of a schema reads from the object it serializes
GetAttr(schema, id, field) ==
    CASE field = "id" -> id
      [] schema = "CustomerSchema" -> Customer[id][field]
      [] schema = "ItemSchema" -> Item[id][field]
      [] schema = "ReviewSchema" -> Review[id][field]

JsonNull == [t |-> "null"]
RecursionError == [t |-> "RecursionError"]

\* Schema(exclude=exclude).dump(obj): every declared field that is not
\* excluded; a nested field through the schema it names; None as null
RECURSIVE Dump(_, _, _, _)
Dump(schema, exclude, id, fuel) ==
    IF fuel = 0 THEN RecursionError
    ELSE
    [t |-> "obj",
     f |-> [k \in (DOMAIN Fields(schema)) \ exclude |->
              LET fld == Fields(schema)[k]
                  v == GetAttr(schema, id, k)
              IN  CASE fld.type = "Integer" -> [t |-> "int", v |-> v]
                    [] fld.type = "String" -> [t |-> "str", v |-> v]
                    [] fld.type = "Float" -> [t |-> "float", v |-> v]
                    [] fld.type = "Nested" ->
                         IF fld.many
                         THEN [t |-> "list",
                               e |-> [j \in 1..Len(v) |->
                                        Dump(fld.nested, fld.exclude, v[j], fuel - 1)]]
                         ELSE IF v = None THEN JsonNull
                         ELSE Dump(fld.nested, fld.exclude, v, fuel - 1)]]

Dumped(schema, id) ==
    [kind |-> "dump", schema |-> schema, id |-> id,
     body |-> Dump(schema, {}, id, MaxDepth)]

\* CustomerSchema().dump(c), c loaded from the store
DumpCustomer(c) ==
    /\ Clean
    /\ c \in DOMAIN customers
    /\ out' = Dumped("CustomerSchema", c)
    /\ UNCHANGED <<store, Customer, Item, Review, deleted, ops, budget, reappended>>

\* ItemSchema().dump(i), i loaded from the store
DumpItem(i) ==
    /\ Clean
    /\ i \in DOMAIN items
    /\ out' = Dumped("ItemSchema", i)
    /\ UNCHANGED <<store, Customer, Item, Review, deleted, ops, budget, reappended>>

\* ReviewSchema().dump(r), r loaded from the store
DumpReview(r) ==
    /\ Clean
    /\ r \in DOMAIN reviews
    /\ out' = Dumped("ReviewSchema", r)
    /\ UNCHANGED <<store, Customer, Item, Review, deleted, ops, budget, reappended>>

Next ==
    \/ \E n \in CustomerNames : AddCustomer(n)
    \/ \E n \in ItemNames, p \in Prices : AddItem(n, p)
    \/ \E t \in Comments, c \in CustomerIds \cup {None}, i \in ItemIds \cup {None} :
          AddReview(t, c, i)
    \/ \E r \in ReviewIds, c \in CustomerIds \cup {None} : SetCustomer(r, c)
    \/ \E r \in ReviewIds, i \in ItemIds \cup {None} : SetItem(r, i)
    \/ \E c \in CustomerIds, r \in ReviewIds : AppendCustomerReview(c, r)
    \/ \E c \in CustomerIds, r \in ReviewIds : RemoveCustomerReview(c, r)
    \/ \E i \in ItemIds, r \in ReviewIds : AppendItemReview(i, r)
    \/ \E i \in ItemIds, r \in ReviewIds : RemoveItemReview(i, r)
    \/ \E c \in CustomerIds : DeleteCustomer(c)
    \/ \E i \in ItemIds : DeleteItem(i)
    \/ \E r \in ReviewIds : DeleteReview(r)
    \/ Commit
    \/ \E t \in Comments, c \in CustomerIds \cup {None}, i \in ItemIds \cup {None} :
          PostReview(t, c, i)
    \/ \E c \in CustomerIds : ReadItems(c)
    \/ \E c \in CustomerIds : DumpCustomer(c)
    \/ \E i \in ItemIds : DumpItem(i)
    \/ \E r \in ReviewIds : DumpReview(r)

Spec == Init /\ [][Next]_vars

SpecUnit == InitUnit /\ [][Next]_vars

\* ------------------------------------------------------------ JSON helpers
Max(S) == IF S = {} THEN 0 ELSE CHOOSE x \in S : \A y \in S : y <= x

\* nesting depth of a serialized value: an object counts one level, a list
\* and a primitive none
RECURSIVE Depth(_)
Depth(v) ==
    CASE v.t = "obj" -> 1 + Max({Depth(v.f[k]) : k \in DOMAIN v.f})
      [] v.t = "list" -> Max({Depth(v.e[j]) : j \in 1..Len(v.e)})
      [] OTHER -> 0

RECURSIVE GaveUp(_)
GaveUp(v) ==
    CASE v.t = "RecursionError" -> TRUE
      [] v.t = "obj" -> \E k \in DOMAIN v.f : GaveUp(v.f[k])
      [] v.t = "list" -> \E j \in 1..Len(v.e) : GaveUp(v.e[j])
      [] OTHER -> FALSE

Primitive(v) == v.t \in {"int", "str", "float"}

\* the entities nested directly in a serialized object
NestedEntities(v) ==
    {v.f[k] : k \in {x \in DOMAIN v.f : v.f[x].t = "obj"}}
    \cup UNION {Range(v.f[k].e) : k \in {x \in DOMAIN v.f : v.f[x].t = "list"}}

ReviewsOfCustomer(c) == {r \in DOMAIN reviews : reviews[r].customer_id = c}
ReviewsOfItem(i) == {r \in DOMAIN reviews : reviews[r].item_id = i}

Restrict(f, S) == [x \in S |-> f[x]]

CommitStep == ops > 0 /\ ops' = 0

\* --------------------------------------------------------------- properties

\* C1: a unit of work that only deletes Customer c commits, and the commit
\* removes c and exactly the Reviews whose customer_id is c: every other
\* Review (a null customer_id included), every Item and every other Customer
\* keeps its row unchanged.
C1_DeleteCustomerRemovesExactlyItsReviews ==
    [][\A c \in CustomerIds :
        (ops = 1 /\ deleted.customers = {c} /\ CommitStep) =>
            /\ out'.kind = "commit"
            /\ customers' = Restrict(customers, DOMAIN customers \ {c})
            /\ items' = items
            /\ reviews' = Restrict(reviews, DOMAIN reviews \ ReviewsOfCustomer(c))]_vars

C1_Witness ==
    /\ out.kind = "commit"
    /\ Cardinality(out.deleted.customers) = 1
    /\ out.deleted.items = {}
    /\ out.orphans = {}
    /\ DOMAIN out.deleted.reviews # {}
    /\ \A r \in DOMAIN out.deleted.reviews :
          out.deleted.reviews[r].customer_id \in out.deleted.customers
    /\ \E r \in DOMAIN reviews : reviews[r].customer_id = None
    /\ customers # <<>> /\ items # <<>>

\* C2: a unit of work that only deletes Item i commits and deletes every
\* Review whose item_id is i, also one whose Customer still exists; no such
\* Review is left in the store or in a Customer's reviews afterwards.
C2_DeleteItemDeletesItsReviews ==
    [][\A i \in ItemIds :
        (ops = 1 /\ deleted.items = {i} /\ CommitStep) =>
            /\ out'.kind = "commit"
            /\ i \notin DOMAIN items'
            /\ \A r \in ReviewsOfItem(i) :
                  /\ r \notin DOMAIN reviews'
                  /\ \A c \in DOMAIN Customer' : r \notin Range(Customer'[c].reviews)
            /\ \A r \in DOMAIN reviews' : reviews'[r].item_id # i]_vars

C2_Witness ==
    /\ out.kind = "commit"
    /\ out.deleted.customers = {}
    /\ Cardinality(out.deleted.items) = 1
    /\ out.orphans = {}
    /\ \E r \in DOMAIN out.deleted.reviews :
          /\ out.deleted.reviews[r].item_id \in out.deleted.items
          /\ out.deleted.reviews[r].customer_id \in DOMAIN customers
          /\ r \notin DOMAIN reviews

C4_ItemsDistinctWithoutNull ==
    out.kind = "items" =>
        /\ \A j, k \in 1..Len(out.value) : out.value[j] = out.value[k] => j = k
        /\ None \notin Range(out.value)
        /\ Range(out.value) =
              {reviews[r].item_id : r \in ReviewsOfCustomer(out.id)} \ {None}

\* C4 (amended): c.items holds one entry per Review of c, in the order of
\* c.reviews, that Review's item: an Item that several Reviews reference is
\* there once per Review, a Review with a null item_id gives a null entry,
\* and the non-null entries are the Items c's Reviews reference.
C4_ItemsOnePerReview ==
    out.kind = "items" =>
        LET rs == SortedSeq(ReviewsOfCustomer(out.id)) IN
        /\ Len(out.value) = Len(rs)
        /\ \A k \in 1..Len(rs) : out.value[k] = reviews[rs[k]].item_id
        /\ Range(out.value) \ {None} =
              {reviews[r].item_id : r \in ReviewsOfCustomer(out.id)} \ {None}

C4_Witness ==
    /\ out.kind = "items"
    /\ Len(out.value) = 2
    /\ out.value[1] = out.value[2]
    /\ out.value[1] # None

C4_WitnessNull ==
    /\ out.kind = "items"
    /\ None \in Range(out.value)

\* C5: CustomerSchema().dump(c) has exactly the keys id, name, reviews;
\* reviews is a list with one entry per Review row whose customer_id is c, and
\* every entry has exactly the keys id and comment.
C5_CustomerDumpShape ==
    (out.kind = "dump" /\ out.schema = "CustomerSchema") =>
        /\ out.body.t = "obj"
        /\ DOMAIN out.body.f = {"id", "name", "reviews"}
        /\ out.body.f.reviews.t = "list"
        /\ Len(out.body.f.reviews.e) = Cardinality(ReviewsOfCustomer(out.id))
        /\ \A j \in 1..Len(out.body.f.reviews.e) :
              /\ out.body.f.reviews.e[j].t = "obj"
              /\ DOMAIN out.body.f.reviews.e[j].f = {"id", "comment"}

C5_Witness ==
    /\ out.kind = "dump" /\ out.schema = "CustomerSchema"
    /\ Len(out.body.f.reviews.e) = 1
    /\ \E r \in ReviewsOfCustomer(out.id) : reviews[r].item_id # None
    /\ \E r \in DOMAIN reviews : reviews[r].customer_id # out.id

\* C6: ItemSchema().dump(i) has exactly the keys id, name, price, reviews;
\* reviews is a list with one entry per Review row whose item_id is i, and
\* every entry has exactly the keys id and comment.
C6_ItemDumpShape ==
    (out.kind = "dump" /\ out.schema = "ItemSchema") =>
        /\ out.body.t = "obj"
        /\ DOMAIN out.body.f = {"id", "name", "price", "reviews"}
        /\ out.body.f.reviews.t = "list"
        /\ Len(out.body.f.reviews.e) = Cardinality(ReviewsOfItem(out.id))
        /\ \A j \in 1..Len(out.body.f.reviews.e) :
              /\ out.body.f.reviews.e[j].t = "obj"
              /\ DOMAIN out.body.f.reviews.e[j].f = {"id", "comment"}

C6_Witness ==
    /\ out.kind = "dump" /\ out.schema = "ItemSchema"
    /\ Len(out.body.f.reviews.e) >= 1
    /\ \E r \in ReviewsOfItem(out.id) : reviews[r].customer_id # None
    /\ \E r \in DOMAIN reviews : reviews[r].item_id # out.id

\* C7: ReviewSchema().dump(r) is an object with exactly the keys id, comment,
\* customer, item, whatever foreign key is null: customer is null when
\* customer_id is null and otherwise an object with exactly id and name; item
\* is null when item_id is null and otherwise an object with exactly id, name
\* and price.
C7_ReviewDumpShape ==
    (out.kind = "dump" /\ out.schema = "ReviewSchema") =>
        /\ out.body.t = "obj"
        /\ DOMAIN out.body.f = {"id", "comment", "customer", "item"}
        /\ IF reviews[out.id].customer_id = None
           THEN out.body.f.customer = JsonNull
           ELSE /\ out.body.f.customer.t = "obj"
                /\ DOMAIN out.body.f.customer.f = {"id", "name"}
                /\ out.body.f.customer.f.id.v = reviews[out.id].customer_id
        /\ IF reviews[out.id].item_id = None
           THEN out.body.f.item = JsonNull
           ELSE /\ out.body.f.item.t = "obj"
                /\ DOMAIN out.body.f.item.f = {"id", "name", "price"}
                /\ out.body.f.item.f.id.v = reviews[out.id].item_id

C7_Witness ==
    /\ out.kind = "dump" /\ out.schema = "ReviewSchema"
    /\ reviews[out.id].customer_id = None
    /\ reviews[out.id].item_id # None
    /\ out.body.f.customer = JsonNull

C7_WitnessBothNull ==
    /\ out.kind = "dump" /\ out.schema = "ReviewSchema"
    /\ reviews[out.id].customer_id = None /\ reviews[out.id].item_id = None

C7_WitnessItemNull ==
    /\ out.kind = "dump" /\ out.schema = "ReviewSchema"
    /\ reviews[out.id].customer_id # None /\ reviews[out.id].item_id = None

C7_WitnessNoneNull ==
    /\ out.kind = "dump" /\ out.schema = "ReviewSchema"
    /\ reviews[out.id].customer_id # None /\ reviews[out.id].item_id # None

\* C8: every dump ends without exhausting the recursion the serializer is
\* allowed, its output is at most 2 objects deep, and no entity nested in it
\* holds anything but primitive fields.
C8_DumpBoundedDepth ==
    out.kind = "dump" =>
        /\ ~GaveUp(out.body)
        /\ Depth(out.body) <= 2
        /\ \A n \in NestedEntities(out.body) :
              \A k \in DOMAIN n.f : Primitive(n.f[k])

\* a cyclic graph: the Customer's Review has an Item all of whose Reviews are
\* that Customer's
C8_Witness ==
    /\ out.kind = "dump" /\ out.schema = "CustomerSchema"
    /\ \E r \in ReviewsOfCustomer(out.id) :
          /\ reviews[r].item_id # None
          /\ Cardinality(ReviewsOfItem(reviews[r].item_id)) = 2
          /\ ReviewsOfItem(reviews[r].item_id) \subseteq ReviewsOfCustomer(out.id)
    /\ Depth(out.body) = 2

====
